---- MODULE Spec2Model ----
(***************************************************************************)
(* Model of the tagging -> location -> segmentation pipeline:              *)
(*   src/src/pipeline.py                        PipelineTLS, main          *)
(*   src/src/tagging/.../llava_description.py   LlavaDescriptor            *)
(*   src/src/location/grounding_dino_location.py GroundingDinoLocator      *)
(*                                                                         *)
(* Four specifications share the helper operators:                         *)
(*   Spec      the orchestrator and its entry point main(iters)            *)
(*   SpecDesc  LlavaDescriptor.run with the clock and the file system      *)
(*   SpecLoc   GroundingDinoLocator: construction and locate_objects       *)
(*   SpecFn    the locator's pure functions on their bounded domains       *)
(* Strings whose characters matter (descriptions, labels, prompts) are     *)
(* sequences of one-character strings; time is counted in clock ticks, and *)
(* time.strftime("%Y-%m-%d_%H-%M-%S") keeps the whole seconds of a reading. *)
(***************************************************************************)
EXTENDS Integers, Sequences, FiniteSets, TLC

VARIABLES
    \* ---- orchestrator (Spec) ----
    pipeline,          \* PipelineTLS fields set by __init__ from its arguments
    timeout,           \* LlavaDescriptor.timeout
    constructed,       \* collaborator class -> number of constructor calls
    iters,             \* main's parameter
    mainpc,            \* position of main
    i,                 \* main's loop variable
    total_time,        \* main's accumulator
    avg_time,          \* <<>> or <<[num, den]>>: total_time / iters as a fraction
    runpc,             \* position of PipelineTLS.run
    input_image_name,  \* run's argument
    start_time,        \* run's start_time
    clock,             \* wall clock, seconds
    events,            \* call/return/raise events of the current run's stages
    tagging_output,    \* <<>> or <<value returned by self.tagging>>
    location_input,    \* <<>> or <<input_tags received by self.location>>
    location_output,   \* <<>> or <<value returned by self.location>>
    segmentation_input,\* <<>> or <<input_bbox_location received by self.segmentation>>
    llava_result,      \* <<>> or <<what LlavaDescriptor.run did in the tagging stage just ended>>
    extractor_input,   \* <<>> or <<description given to extractor.load_description>>
    ret,               \* <<>> or <<value returned by run>>
    runs,              \* every run started by main: [image, status, elapsed]
    \* ---- LlavaDescriptor on its own (SpecDesc) ----
    descriptor,        \* LlavaDescriptor fields: save_file, timeout, loaded
    desc_clock,        \* wall clock, ticks
    desc_fs,           \* paths that exist under output_descriptions
    desc_writes,       \* every path a run created or wrote: [run, op, path, existed]
    desc_runs,         \* number of run() calls so far
    desc_result,       \* <<>> or <<what the last run() did>>
    \* ---- GroundingDinoLocator on its own (SpecLoc) ----
    locator,           \* <<>> or <<the fields __init__ set>>
    loc_built,         \* whether __init__ has been called
    loc_clock,         \* wall clock, ticks
    loc_fs,            \* files under output_location: [path, content]
    loc_writes,        \* every artifact write: [built, run, time, path, existed]
    loc_runs,          \* locate_objects calls on the current locator
    loc_result,        \* <<>> or <<value the last locate_objects returned>>
    \* ---- the locator's pure functions (SpecFn) ----
    fn,                \* the function under test
    applied,           \* whether it has been applied
    tags,              \* argument of json_to_gdino_prompt
    prompt,            \* its result
    results,           \* argument of gdino_results_to_json
    results_json,      \* its result
    candidates,        \* first argument of filter_confidence
    threshold,         \* its second argument
    filtered_results,  \* its result
    input_tags_dir,    \* argument of read_input_tags: <<>> or <<the directory's listing>>
    tags_read          \* <<>> or <<what read_input_tags did>>

pvars == <<pipeline, timeout, constructed, iters, mainpc, i, total_time, avg_time,
           runpc, input_image_name, start_time, clock, events, tagging_output,
           location_input, location_output, segmentation_input, llava_result,
           extractor_input, ret, runs>>

dvars == <<descriptor, desc_clock, desc_fs, desc_writes, desc_runs, desc_result>>

lvars == <<locator, loc_built, loc_clock, loc_fs, loc_writes, loc_runs, loc_result>>

fvars == <<fn, applied, tags, prompt, results, results_json, candidates, threshold,
           filtered_results, input_tags_dir, tags_read>>

vars == <<pvars, dvars, lvars, fvars>>

---------------------------------------------------------------------------
\* Bounds of the model.
MaxIters == 4        \* main(iters) is explored for iters in 1..MaxIters
NumImages == 3       \* length of main's image list (ten names in the source)
MaxDur == 1          \* ticks that may pass during one run, or one ollama.chat call
MaxTimeout == 2      \* LlavaDescriptor timeout, ticks, explored in 0..MaxTimeout
MaxAttempts == 2     \* ollama.chat responses scripted for one descriptor run
MaxRuns == 2         \* run() / locate_objects() calls on one object
MaxClock == 2        \* the clock is ticked on its own up to this reading
TicksPerSecond == 2  \* clock ticks in one second of time.strftime
MaxLen == 3          \* length of the detector's arrays and of a candidate list
MaxTags == 2         \* entries of a tag dictionary
MaxFiles == 4        \* entries of the scanned tag directory
MaxMtime == 4        \* modification times of its entries, in 1..MaxMtime

---------------------------------------------------------------------------
\* Method selectors, pipeline.py lines 10-15.
RAM_PLUS == "[PIPELINE | TAGGING | RAM++]"
LVLM_LLM == "[PIPELINE | TAGGING | DESCRIPTION & KEYWORD EXTRACTION]"
LLAVA == "[PIPELINE | TAGGING | DESCRIPTION | LLAVA]"
DEEPSEEK == "[PIPELINE | TAGGING | KEYWORD EXTRACTION | DEEPSEEK]"
GROUNDING_DINO == "[PIPELINE | LOCATION | GDINO]"
SAM2 == "[PIPELINE | SEGMENTATION | SAM2]"
\* Any selector string that equals none of the constants above.
UNKNOWN_METHOD == "[UNKNOWN]"

\* Collaborator classes imported by pipeline.py lines 4-8.
Collaborators ==
    {"RamPlusTagger", "LlavaDescriptor", "DeepseekKeywordExtractor",
     "GroundingDinoLocator", "Sam2Segmenter"}

\* Arguments PipelineTLS.__init__ can be given.
Configs ==
    [tagging_method : {RAM_PLUS, LVLM_LLM, UNKNOWN_METHOD},
     tagging_submethods : {LLAVA, UNKNOWN_METHOD} \X {DEEPSEEK, UNKNOWN_METHOD},
     location_method : {GROUNDING_DINO, UNKNOWN_METHOD},
     segmentation_method : {SAM2, UNKNOWN_METHOD},
     save_files : BOOLEAN]

---------------------------------------------------------------------------
\* Character strings.
Cup == <<"c", "u", "p">>
Table == <<"t", "a", "b", "l", "e">>
Whitespace == {" "}

RECURSIVE lstrip(_)
lstrip(s) == IF s # <<>> /\ Head(s) \in Whitespace THEN lstrip(Tail(s)) ELSE s

RECURSIVE rstrip(_)
rstrip(s) ==
    IF s # <<>> /\ s[Len(s)] \in Whitespace THEN rstrip(SubSeq(s, 1, Len(s) - 1)) ELSE s

\* str.strip()
strip(s) == rstrip(lstrip(s))

\* Texts ollama.chat may answer with: empty, blank, and two with content.
Responses == {<<>>, <<" ">>, <<"a">>, <<" ", "a", " ">>}

\* A script of the collaborator's behaviour during one descriptor run: the k-th
\* ollama.chat call answers script[k].response after script[k].duration seconds.
RECURSIVE SeqsUpTo(_, _)
SeqsUpTo(S, n) ==
    IF n = 0 THEN {<<>>}
    ELSE LET shorter == SeqsUpTo(S, n - 1)
         IN shorter \cup {Append(s, x) : s \in {t \in shorter : Len(t) = n - 1}, x \in S}

Scripts == SeqsUpTo([response : Responses, duration : 0..MaxDur], MaxAttempts)

---------------------------------------------------------------------------
\* LlavaDescriptor.run, llava_description.py lines 93-119.

\* Line 102, the while condition: the model is invoked only while this holds.
llava_may_invoke(elapsed, tmo) == elapsed < tmo

\* Variant of line 114 that tests the response without strip().
llava_accepts_unstripped(description) == description # <<>>

\* Line 114: a response ends the loop when it is non-empty after strip().
llava_accepts(description) == strip(description) # <<>>

\* The retry loop.  k is the next scripted call, elapsed is time.time() - start_time
\* at the coming check, calls the invocations made so far.  The result is
\*   "return"    the break at line 115, description is what line 137 returns
\*   "raise"     the while-else at line 119 (TimeoutError)
\*   "undecided" the script ends before the loop does
RECURSIVE llava_loop(_, _, _, _, _)
llava_loop(script, k, elapsed, tmo, calls) ==
    IF ~llava_may_invoke(elapsed, tmo)
    THEN [kind |-> "raise", description |-> <<>>, calls |-> calls, elapsed |-> elapsed]
    ELSE IF k > Len(script)
    THEN [kind |-> "undecided", description |-> <<>>, calls |-> calls, elapsed |-> elapsed]
    ELSE LET description == script[k].response
             made == Append(calls, [elapsed |-> elapsed, response |-> description])
             after == elapsed + script[k].duration
         IN IF llava_accepts(description)
            THEN [kind |-> "return", description |-> description, calls |-> made,
                  elapsed |-> after]
            ELSE llava_loop(script, k + 1, after, tmo, made)

\* Every way the loop can end for a descriptor with the given timeout.
llava_run(tmo) ==
    {r \in {llava_loop(script, 1, 0, tmo, <<>>) : script \in Scripts} :
        r.kind # "undecided"}

---------------------------------------------------------------------------
\* Values the opaque collaborators hand back.

\* Tag dictionaries in insertion order: sequences of <<key, label>>.
PipelineTagSets ==
    {<<>>, <<<<"0", Cup>>, <<"1", Table>>>>, <<<<"0", Table>>, <<"1", Cup>>>>}

CandA == [label |-> Cup, score |-> 31,
          bbox |-> [x_min |-> 1, y_min |-> 2, x_max |-> 3, y_max |-> 4]]
CandB == [label |-> Table, score |-> 45,
          bbox |-> [x_min |-> 5, y_min |-> 6, x_max |-> 7, y_max |-> 8]]
PipelineDetections == {<<>>, <<CandA, CandB>>, <<CandB, CandA>>}

\* main's image list, pipeline.py line 116; an image is named by its position.
ImageList == [k \in 1..NumImages |-> k]

\* The outcome of one stage method of the orchestrator: how it ended, the value
\* it returned, and for the tagging stage what LlavaDescriptor.run did (<<>> when
\* it was not called) and what the extractor was given (<<>> when it was not
\* called).
Outcome(kind, value, llava, extracted) ==
    [kind |-> kind, value |-> value, llava |-> llava, extracted |-> extracted]

\* Variant of line 129 that is the commented-out line 128: the same image each time.
main_image_same(idx) == ImageList[1]

\* The image main selects for iteration idx, pipeline.py line 129.
main_image(idx) == ImageList[idx + 1]

\* PipelineTLS.tagging, pipeline.py lines 51-69: the set of its possible outcomes.
\* RamPlusTagger and DeepseekKeywordExtractor are opaque: each returns some tag
\* set or raises.  load_image_path (lines 46-63) raises when the image file is
\* missing, and always when image.is_list: that is main's single-iteration
\* call, which passes the whole list, and os.path.join raises on it.
tagging(self, image, tmo) ==
    IF self.tagging_method = RAM_PLUS
    THEN {Outcome("return", t, <<>>, <<>>) : t \in PipelineTagSets}
         \cup {Outcome("raise", <<>>, <<>>, <<>>)}
    ELSE IF self.tagging_method = LVLM_LLM
    THEN LET described ==
                 IF self.tagging_submethods[1] = LLAVA
                 THEN {[bound |-> FALSE, raised |-> TRUE, run |-> <<>>]}
                      \cup (IF image.is_list THEN {}
                            ELSE {[bound |-> r.kind = "return",
                                   raised |-> r.kind = "raise",
                                   run |-> <<r>>] : r \in llava_run(tmo)})
                 ELSE {[bound |-> FALSE, raised |-> FALSE, run |-> <<>>]}
             extracted(ds) ==
                 IF ds.raised
                 THEN {Outcome("raise", <<>>, ds.run, <<>>)}
                 ELSE IF self.tagging_submethods[2] = DEEPSEEK
                 THEN IF ~ds.bound
                      THEN {Outcome("raise", <<>>, ds.run, <<>>)}
                      ELSE LET description_str == ds.run[1].description
                           IN {Outcome("return", t, ds.run, <<description_str>>)
                                   : t \in PipelineTagSets}
                              \cup {Outcome("raise", <<>>, ds.run, <<description_str>>)}
                 ELSE {Outcome("return", <<>>, ds.run, <<>>)}
         IN UNION {extracted(ds) : ds \in described}
    ELSE {Outcome("return", <<>>, <<>>, <<>>)}

\* PipelineTLS.location, lines 71-77.  The locator's load_image, load_tags and
\* run are opaque here: they return some detection list or raise.
location(self, image, input_tags) ==
    IF self.location_method = GROUNDING_DINO
    THEN {Outcome("return", r, <<>>, <<>>) : r \in PipelineDetections}
         \cup {Outcome("raise", <<>>, <<>>, <<>>)}
    ELSE {Outcome("return", <<>>, <<>>, <<>>)}

\* PipelineTLS.segmentation, lines 79-84.  Sam2Segmenter is opaque.
segmentation(self, image, input_bbox_location) ==
    IF self.segmentation_method = SAM2
    THEN {Outcome(kind, <<>>, <<>>, <<>>) : kind \in {"return", "raise"}}
    ELSE {Outcome("return", <<>>, <<>>, <<>>)}

---------------------------------------------------------------------------
\* PipelineTLS.__init__, lines 35-47: the collaborator classes it instantiates,
\* in the order of its constructor calls.
Selected(cond, class) == IF cond THEN <<class>> ELSE <<>>

\* Variant of __init__ that builds the descriptor whatever the tagging method.
CtorOrderEager(args) ==
    (IF args.tagging_method = RAM_PLUS THEN <<"RamPlusTagger">> ELSE <<>>)
    \o <<"LlavaDescriptor">>
    \o Selected(args.location_method = GROUNDING_DINO, "GroundingDinoLocator")
    \o Selected(args.segmentation_method = SAM2, "Sam2Segmenter")

CtorOrder(args) ==
    (IF args.tagging_method = RAM_PLUS
     THEN <<"RamPlusTagger">>
     ELSE IF args.tagging_method = LVLM_LLM
     THEN Selected(args.tagging_submethods[1] = LLAVA, "LlavaDescriptor")
          \o Selected(args.tagging_submethods[2] = DEEPSEEK, "DeepseekKeywordExtractor")
     ELSE <<>>)
    \o Selected(args.location_method = GROUNDING_DINO, "GroundingDinoLocator")
    \o Selected(args.segmentation_method = SAM2, "Sam2Segmenter")

Count(seq, x) == Cardinality({k \in DOMAIN seq : seq[k] = x})

\* Position of the first constructor call that raises, 0 when none does.
FirstFailure(order, failing) ==
    IF \E k \in DOMAIN order : order[k] = failing
    THEN CHOOSE k \in DOMAIN order :
             order[k] = failing /\ \A j \in 1..(k - 1) : order[j] # failing
    ELSE 0

\* Variant of run that calls segmentation before location.
NextPcSwapped(stage, kind) ==
    IF kind = "raise" THEN "raised"
    ELSE CASE stage = "tagging" -> "segmentation"
           [] stage = "segmentation" -> "location"
           [] stage = "location" -> "return"

\* Variant of run that swallows a stage's exception and goes on.
NextPcSwallow(stage, kind) ==
    CASE stage = "tagging" -> IF kind = "raise" THEN "segmentation" ELSE "location"
      [] stage = "location" -> "segmentation"
      [] stage = "segmentation" -> "return"

\* PipelineTLS.run, lines 90-98: where control goes after a stage method ends.
\* A raise leaves run at once; a return goes on to the next statement.
NextPc(stage, kind) ==
    IF kind = "raise" THEN "raised"
    ELSE CASE stage = "tagging" -> "location"
           [] stage = "location" -> "segmentation"
           [] stage = "segmentation" -> "return"

\* Line 87 and the call itself: run(input_image_name=image) starts.
RunBegin(image) ==
    /\ runpc' = "tagging"
    /\ input_image_name' = image
    /\ start_time' = clock
    /\ events' = <<>>
    /\ tagging_output' = <<>>
    /\ location_input' = <<>>
    /\ location_output' = <<>>
    /\ segmentation_input' = <<>>
    /\ llava_result' = <<>>
    /\ extractor_input' = <<>>
    /\ ret' = <<>>
    /\ runs' = Append(runs, [image |-> image, status |-> "running", elapsed |-> 0])

StageEvents(stage, kind) == <<<<"call", stage>>, <<kind, stage>>>>

Settle(status, elapsed) ==
    [runs EXCEPT ![Len(runs)] = [@ EXCEPT !.status = status, !.elapsed = elapsed]]

---------------------------------------------------------------------------
\* Values the variables of one specification keep under the others.
DescUnused ==
    /\ descriptor = [save_file |-> FALSE, timeout |-> 0, loaded |-> FALSE]
    /\ desc_clock = 0
    /\ desc_fs = {}
    /\ desc_writes = <<>>
    /\ desc_runs = 0
    /\ desc_result = <<>>

LocUnused ==
    /\ locator = <<>>
    /\ loc_built = FALSE
    /\ loc_clock = 0
    /\ loc_fs = {}
    /\ loc_writes = <<>>
    /\ loc_runs = 0
    /\ loc_result = <<>>

FnUnused ==
    /\ fn = "none"
    /\ applied = FALSE
    /\ tags = <<>>
    /\ prompt = <<>>
    /\ results = [labels |-> <<>>, boxes |-> <<>>, scores |-> <<>>]
    /\ results_json = <<>>
    /\ candidates = <<>>
    /\ threshold = 0
    /\ filtered_results = <<>>
    /\ input_tags_dir = <<>>
    /\ tags_read = <<>>

PipelineUnused ==
    /\ pipeline = [tagging_method |-> UNKNOWN_METHOD,
                   tagging_submethods |-> <<UNKNOWN_METHOD, UNKNOWN_METHOD>>,
                   location_method |-> UNKNOWN_METHOD,
                   segmentation_method |-> UNKNOWN_METHOD,
                   save_files |-> FALSE]
    /\ iters = 1
    /\ timeout = 0
    /\ constructed = [c \in Collaborators |-> 0]
    /\ mainpc = "construct"
    /\ i = 0
    /\ total_time = 0
    /\ avg_time = <<>>
    /\ runpc = "idle"
    /\ input_image_name = [is_list |-> FALSE, names |-> <<>>]
    /\ start_time = 0
    /\ clock = 0
    /\ events = <<>>
    /\ tagging_output = <<>>
    /\ location_input = <<>>
    /\ location_output = <<>>
    /\ segmentation_input = <<>>
    /\ llava_result = <<>>
    /\ extractor_input = <<>>
    /\ ret = <<>>
    /\ runs = <<>>

---------------------------------------------------------------------------
\* Spec: the orchestrator and main.

Init ==
    /\ pipeline \in Configs
    /\ iters \in 1..MaxIters
    /\ timeout = 0
    /\ constructed = [c \in Collaborators |-> 0]
    /\ mainpc = "construct"
    /\ i = 0
    /\ total_time = 0
    /\ avg_time = <<>>
    /\ runpc = "idle"
    /\ input_image_name = [is_list |-> FALSE, names |-> <<>>]
    /\ start_time = 0
    /\ clock = 0
    /\ events = <<>>
    /\ tagging_output = <<>>
    /\ location_input = <<>>
    /\ location_output = <<>>
    /\ segmentation_input = <<>>
    /\ llava_result = <<>>
    /\ extractor_input = <<>>
    /\ ret = <<>>
    /\ runs = <<>>
    /\ DescUnused /\ LocUnused /\ FnUnused

\* main lines 107-113 with PipelineTLS.__init__ lines 26-49.  Any collaborator
\* constructor may raise (GroundingDinoLocator.__init__ does at lines 52 and 105);
\* the descriptor keeps the timeout it is built with.
Construct ==
    /\ mainpc = "construct"
    /\ \E failing \in Collaborators \cup {"none"}, tmo \in 0..MaxTimeout :
          LET order == CtorOrder(pipeline)
              k == FirstFailure(order, failing)
              called == IF k = 0 THEN order ELSE SubSeq(order, 1, k)
          IN /\ constructed' = [c \in Collaborators |-> constructed[c] + Count(called, c)]
             /\ mainpc' = IF k = 0 THEN "main" ELSE "failed"
             /\ timeout' = IF Count(called, "LlavaDescriptor") > 0 THEN tmo ELSE 0
    /\ UNCHANGED <<dvars, lvars, fvars>>
    /\ UNCHANGED <<pipeline, iters, i, total_time, avg_time, runpc, input_image_name,
                   start_time, clock, events, tagging_output, location_input,
                   location_output, segmentation_input, llava_result, extractor_input,
                   ret, runs>>

\* main lines 119-120: one iteration, run is given the whole list.
MainRunOnce ==
    /\ mainpc = "main" /\ runpc = "idle"
    /\ iters <= 1
    /\ RunBegin([is_list |-> TRUE, names |-> ImageList])
    /\ UNCHANGED <<dvars, lvars, fvars>>
    /\ UNCHANGED <<pipeline, timeout, constructed, iters, mainpc, i, total_time,
                   avg_time, clock>>

\* main lines 126-129: the next iteration of the for loop calls run on
\* input_image_name[i].
MainRunNext ==
    /\ mainpc = "main" /\ runpc = "idle"
    /\ iters > 1 /\ i < iters
    /\ i + 1 \in DOMAIN ImageList
    /\ RunBegin([is_list |-> FALSE, names |-> <<main_image(i)>>])
    /\ UNCHANGED <<dvars, lvars, fvars>>
    /\ UNCHANGED <<pipeline, timeout, constructed, iters, mainpc, i, total_time,
                   avg_time, clock>>

\* main line 129: input_image_name[i] past the end of the list raises IndexError.
MainIndexError ==
    /\ mainpc = "main" /\ runpc = "idle"
    /\ iters > 1 /\ i < iters
    /\ i + 1 \notin DOMAIN ImageList
    /\ mainpc' = "failed"
    /\ UNCHANGED <<dvars, lvars, fvars>>
    /\ UNCHANGED <<pipeline, timeout, constructed, iters, i, total_time, avg_time,
                   runpc, input_image_name, start_time, clock, events, tagging_output,
                   location_input, location_output, segmentation_input, llava_result,
                   extractor_input, ret, runs>>

\* run line 90: tagging_output = self.tagging(input_image_name).
RunTagging ==
    /\ runpc = "tagging"
    /\ \E out \in tagging(pipeline, input_image_name, timeout) :
          /\ events' = events \o StageEvents("tagging", out.kind)
          /\ tagging_output' = IF out.kind = "return" THEN <<out.value>> ELSE <<>>
          /\ llava_result' = out.llava
          /\ extractor_input' = out.extracted
          /\ runpc' = NextPc("tagging", out.kind)
          /\ runs' = IF out.kind = "raise" THEN Settle("raised", 0) ELSE runs
    /\ UNCHANGED <<dvars, lvars, fvars>>
    /\ UNCHANGED <<pipeline, timeout, constructed, iters, mainpc, i, total_time,
                   avg_time, input_image_name, start_time, clock, location_input,
                   location_output, segmentation_input, ret>>

\* run line 91: location_output = self.location(input_image_name, tagging_output).
RunLocation ==
    /\ runpc = "location"
    /\ \E out \in location(pipeline, input_image_name, tagging_output[1]) :
          /\ events' = events \o StageEvents("location", out.kind)
          /\ location_input' = tagging_output
          /\ llava_result' = <<>>
          /\ location_output' = IF out.kind = "return" THEN <<out.value>> ELSE <<>>
          /\ runpc' = NextPc("location", out.kind)
          /\ runs' = IF out.kind = "raise" THEN Settle("raised", 0) ELSE runs
    /\ UNCHANGED <<dvars, lvars, fvars>>
    /\ UNCHANGED <<pipeline, timeout, constructed, iters, mainpc, i, total_time,
                   avg_time, input_image_name, start_time, clock, tagging_output,
                   segmentation_input, extractor_input, ret>>

\* run line 92: self.segmentation(input_image_name, location_output).
RunSegmentation ==
    /\ runpc = "segmentation"
    /\ \E out \in segmentation(pipeline, input_image_name, location_output) :
          /\ events' = events \o StageEvents("segmentation", out.kind)
          /\ segmentation_input' = location_output
          /\ runpc' = NextPc("segmentation", out.kind)
          /\ runs' = IF out.kind = "raise" THEN Settle("raised", 0) ELSE runs
    /\ UNCHANGED <<dvars, lvars, fvars>>
    /\ UNCHANGED <<pipeline, timeout, constructed, iters, mainpc, i, total_time,
                   avg_time, input_image_name, start_time, clock, tagging_output,
                   location_input, location_output, llava_result, extractor_input, ret>>

\* run lines 94-98: end_time = time.time() reads the clock, which has moved on
\* by some number of seconds since line 87; total_time = end_time - start_time
\* is returned.
RunReturn ==
    /\ runpc = "return"
    /\ \E passed \in 0..MaxDur :
          LET end_time == clock + passed
          IN /\ clock' = end_time
             /\ ret' = <<end_time - start_time>>
             /\ runs' = Settle("returned", end_time - start_time)
    /\ runpc' = "returned"
    /\ UNCHANGED <<dvars, lvars, fvars>>
    /\ UNCHANGED <<pipeline, timeout, constructed, iters, mainpc, i, total_time,
                   avg_time, input_image_name, start_time, events,
                   tagging_output, location_input, location_output,
                   segmentation_input, llava_result, extractor_input>>

\* main line 120 (the value is dropped) and line 129 (total_time += ...).
MainResume ==
    /\ mainpc = "main" /\ runpc = "returned"
    /\ IF iters <= 1
       THEN /\ mainpc' = "done"
            /\ UNCHANGED <<i, total_time>>
       ELSE /\ total_time' = total_time + ret[1]
            /\ i' = i + 1
            /\ mainpc' = mainpc
    /\ runpc' = "idle"
    /\ UNCHANGED <<dvars, lvars, fvars>>
    /\ UNCHANGED <<pipeline, timeout, constructed, iters, avg_time, input_image_name,
                   start_time, clock, events, tagging_output, location_input,
                   location_output, segmentation_input, llava_result, extractor_input,
                   ret, runs>>

\* An exception leaving run leaves main too: main has no try.
MainPropagate ==
    /\ mainpc = "main" /\ runpc = "raised"
    /\ mainpc' = "failed"
    /\ UNCHANGED <<dvars, lvars, fvars>>
    /\ UNCHANGED <<pipeline, timeout, constructed, iters, i, total_time, avg_time,
                   runpc, input_image_name, start_time, clock, events, tagging_output,
                   location_input, location_output, segmentation_input, llava_result,
                   extractor_input, ret, runs>>

\* main lines 131-132: avg_time = total_time / iters, kept as a fraction.
MainAverage ==
    /\ mainpc = "main" /\ runpc = "idle"
    /\ iters > 1 /\ i = iters
    /\ avg_time' = <<[num |-> total_time, den |-> iters]>>
    /\ mainpc' = "done"
    /\ UNCHANGED <<dvars, lvars, fvars>>
    /\ UNCHANGED <<pipeline, timeout, constructed, iters, i, total_time, runpc,
                   input_image_name, start_time, clock, events, tagging_output,
                   location_input, location_output, segmentation_input, llava_result,
                   extractor_input, ret, runs>>

Next ==
    \/ Construct
    \/ MainRunOnce
    \/ MainRunNext
    \/ MainIndexError
    \/ RunTagging
    \/ RunLocation
    \/ RunSegmentation
    \/ RunReturn
    \/ MainResume
    \/ MainPropagate
    \/ MainAverage

Spec == Init /\ [][Next]_vars

---------------------------------------------------------------------------
\* SpecDesc: one LlavaDescriptor, its clock and its output directory.

\* time.strftime("%Y-%m-%d_%H-%M-%S"): the whole seconds of a clock reading.
strftime(now) == now \div TicksPerSecond

\* Paths under output_descriptions: description_llava_<ts>, description_llava_<ts>_<n>
\* (lines 77-87) and description_llava_<ts>.txt (lines 128-129).
DescDir(ts, n) == [kind |-> "dir", ts |-> ts, n |-> n]
DescTxt(ts) == [kind |-> "txt", ts |-> ts, n |-> 0]

\* Lines 83-88: the path the while loop stops at.  path is the candidate under
\* test, counter the suffix the next candidate gets.
RECURSIVE unique_dir(_, _, _, _)
unique_dir(fs, ts, path, counter) ==
    IF path \in fs THEN unique_dir(fs, ts, DescDir(ts, counter), counter + 1) ELSE path

\* Lines 128-129: the file the description is written to.
output_file(self, timestamp, unique) == DescTxt(timestamp)

InitDesc ==
    /\ descriptor \in [save_file : BOOLEAN, timeout : 0..MaxTimeout, loaded : {FALSE}]
    /\ desc_clock = 0
    /\ desc_fs \in SUBSET {DescDir(0, 0), DescDir(0, 1)}
    /\ desc_writes = <<>>
    /\ desc_runs = 0
    /\ desc_result = <<>>
    /\ PipelineUnused /\ LocUnused /\ FnUnused

\* load_image_path, lines 46-63, for an image that exists.
DescLoadImagePath ==
    /\ ~descriptor.loaded
    /\ descriptor' = [descriptor EXCEPT !.loaded = TRUE]
    /\ UNCHANGED <<desc_clock, desc_fs, desc_writes, desc_runs, desc_result>>
    /\ UNCHANGED <<pvars, lvars, fvars>>

\* run, lines 65-137, as one step: the directory (72-91), the retry loop
\* (93-119), the description file (125-133).
DescRun ==
    /\ descriptor.loaded
    /\ desc_runs < MaxRuns
    /\ \E r \in llava_run(descriptor.timeout) :
          LET timestamp == strftime(desc_clock)
              dir == unique_dir(desc_fs, timestamp, DescDir(timestamp, 0), 1)
              made == IF descriptor.save_file
                      THEN <<[run |-> desc_runs + 1, op |-> "makedirs", path |-> dir,
                              existed |-> dir \in desc_fs]>>
                      ELSE <<>>
              fs1 == IF descriptor.save_file THEN desc_fs \cup {dir} ELSE desc_fs
              file == output_file(descriptor, timestamp, dir)
              saved == r.kind = "return" /\ descriptor.save_file
              wrote == IF saved
                       THEN <<[run |-> desc_runs + 1, op |-> "write", path |-> file,
                               existed |-> file \in fs1]>>
                       ELSE <<>>
          IN /\ desc_fs' = IF saved THEN fs1 \cup {file} ELSE fs1
             /\ desc_writes' = desc_writes \o made \o wrote
             /\ desc_clock' = desc_clock + r.elapsed
             /\ desc_result' = <<r>>
    /\ desc_runs' = desc_runs + 1
    /\ UNCHANGED descriptor
    /\ UNCHANGED <<pvars, lvars, fvars>>

\* Time passes between calls.
DescTick ==
    /\ desc_clock < MaxClock
    /\ desc_clock' = desc_clock + 1
    /\ UNCHANGED <<descriptor, desc_fs, desc_writes, desc_runs, desc_result>>
    /\ UNCHANGED <<pvars, lvars, fvars>>

NextDesc ==
    \/ DescLoadImagePath
    \/ DescRun
    \/ DescTick

SpecDesc == InitDesc /\ [][NextDesc]_vars

---------------------------------------------------------------------------
\* GroundingDinoLocator's pure functions, grounding_dino_location.py lines 120-161.
\* A score is a number of hundredths (30 is 0.3); float() leaves the floats that
\* tolist() yields as they are.

Labels == {Cup, Table}
BoxA == <<1, 2, 3, 4>>
BoxB == <<5, 6, 7, 8>>
Boxes == {BoxA, BoxB}
Scores == {29, 30, 31}
Keys == {"0", "1", "k"}

\* Variant of the prompt builder that separates the tags with ", ".
RECURSIVE join_comma(_)
join_comma(list) ==
    IF list = <<>> THEN <<>>
    ELSE IF Len(list) = 1 THEN Head(list)
    ELSE Head(list) \o <<",", " ">> \o join_comma(Tail(list))

json_to_gdino_prompt_comma(input_tags) ==
    join_comma([k \in DOMAIN input_tags |-> input_tags[k][2]]) \o <<".">>

\* str.join: the items with sep between neighbours.
RECURSIVE join(_, _)
join(sep, list) ==
    IF list = <<>> THEN <<>>
    ELSE IF Len(list) = 1 THEN Head(list)
    ELSE Head(list) \o sep \o join(sep, Tail(list))

\* json_to_gdino_prompt, lines 120-130.
json_to_gdino_prompt(input_tags) ==
    LET tags_list == [k \in DOMAIN input_tags |-> input_tags[k][2]]
    IN join(<<".", " ">>, tags_list) \o <<".">>

\* dict.get(key, default) on the detector's result, whose entry for a key is <<>>
\* when the key is absent and <<array>> when it is present.
get(d, key, default) == IF d[key] = <<>> THEN default ELSE d[key][1]

\* Lines 142-151: one record of the result.
obj(label, bbox, score) ==
    [label |-> label, score |-> score,
     bbox |-> [x_min |-> bbox[1], y_min |-> bbox[2], x_max |-> bbox[3],
               y_max |-> bbox[4]]]

\* Lines 141-152: the loop over zip(labels, boxes, scores).
RECURSIVE zip_objects(_, _, _)
zip_objects(labels, boxes, scores) ==
    IF labels = <<>> \/ boxes = <<>> \/ scores = <<>> THEN <<>>
    ELSE <<obj(Head(labels), Head(boxes), Head(scores))>>
         \o zip_objects(Tail(labels), Tail(boxes), Tail(scores))

\* Variant of the normalizer that hands the records back best score first.
RECURSIVE by_score(_)
by_score(list) ==
    IF list = <<>> THEN <<>>
    ELSE LET best == CHOOSE k \in DOMAIN list :
                         \A j \in DOMAIN list : list[j].score <= list[k].score
         IN <<list[best]>>
            \o by_score(SubSeq(list, 1, best - 1) \o SubSeq(list, best + 1, Len(list)))

gdino_results_to_json_sorted(raw) ==
    by_score(zip_objects(get(raw, "labels", <<>>), get(raw, "boxes", <<>>),
                         get(raw, "scores", <<>>)))

\* gdino_results_to_json, lines 132-154.
gdino_results_to_json(raw) ==
    LET scores == get(raw, "scores", <<>>)
        boxes == get(raw, "boxes", <<>>)
        labels == get(raw, "labels", <<>>)
    IN zip_objects(labels, boxes, scores)

\* Variant of the filter that keeps a score equal to the threshold.
RECURSIVE filter_confidence_inclusive(_, _)
filter_confidence_inclusive(list, thr) ==
    IF list = <<>> THEN <<>>
    ELSE (IF Head(list).score >= thr THEN <<Head(list)>> ELSE <<>>)
         \o filter_confidence_inclusive(Tail(list), thr)

\* filter_confidence, lines 156-161.
RECURSIVE filter_confidence(_, _)
filter_confidence(list, thr) ==
    IF list = <<>> THEN <<>>
    ELSE (IF Head(list).score > thr THEN <<Head(list)>> ELSE <<>>)
         \o filter_confidence(Tail(list), thr)

\* Inputs of the functions.
Opt(S) == {<<>>} \cup {<<x>> : x \in S}

RawResults ==
    [labels : Opt(SeqsUpTo(Labels, MaxLen)),
     boxes : Opt(SeqsUpTo(Boxes, MaxLen)),
     scores : Opt(SeqsUpTo(Scores, MaxLen))]

Candidates == {obj(l, b, sc) : l \in Labels, b \in Boxes, sc \in Scores}

CandidateLists == SeqsUpTo(Candidates, MaxLen)

\* Dictionaries: no key twice.
TagSets ==
    {t \in SeqsUpTo(Keys \X Labels, MaxTags) :
        \A a, b \in DOMAIN t : a # b => t[a][1] # t[b][1]}

---------------------------------------------------------------------------
\* read_input_tags, grounding_dino_location.py lines 91-118.

DotJson == <<".", "j", "s", "o", "n">>

\* Names a tag directory may hold: three that end in ".json" and one that
\* holds ".json" but ends in another extension.
FileNames ==
    {<<"a">> \o DotJson, <<"b">> \o DotJson, <<"c">> \o DotJson,
     <<"a">> \o DotJson \o <<".", "t", "x", "t">>}

\* What json.load makes of a file: <<dictionary>>, or <<>> when the text is not
\* JSON.  Every name holds a text of its own; c.json holds one that is not JSON.
Stored(name) ==
    IF name = <<"a">> \o DotJson THEN <<(<< <<"0", Cup>> >>)>>
    ELSE IF name = <<"b">> \o DotJson THEN <<(<< <<"0", Table>> >>)>>
    ELSE IF name = <<"c">> \o DotJson THEN <<>>
    ELSE <<(<< <<"0", Cup>>, <<"1", Table>> >>)>>

DirEntries ==
    {[name |-> n, mtime |-> t, content |-> Stored(n)] : n \in FileNames, t \in 1..MaxMtime}

\* os.listdir(input_tags_dir): the entries in the order the system lists them,
\* no name twice; <<>> stands for a directory that does not exist.
RECURSIVE ListingsUpTo(_)
ListingsUpTo(n) ==
    IF n = 0 THEN {<<>>}
    ELSE LET shorter == ListingsUpTo(n - 1)
             fresh(d) == {e \in DirEntries : \A k \in DOMAIN d : d[k].name # e.name}
         IN shorter
            \cup UNION {{Append(d, e) : e \in fresh(d)} :
                           d \in {t \in shorter : Len(t) = n - 1}}

Listings == ListingsUpTo(MaxFiles)

TagDirs == Opt(Listings)

\* str.endswith
endswith(s, suffix) ==
    /\ Len(s) >= Len(suffix)
    /\ SubSeq(s, Len(s) - Len(suffix) + 1, Len(s)) = suffix

\* os.path.join(input_tags_dir, f) and os.path.basename of such a path.
path_join(dir, f) == <<dir, f>>
basename(path) == path[2]

\* Lines 99-103: the list comprehension over os.listdir.
RECURSIVE json_files_of(_, _)
json_files_of(dir, listing) ==
    IF listing = <<>> THEN <<>>
    ELSE (IF endswith(Head(listing).name, DotJson)
          THEN <<[path |-> path_join(dir, Head(listing).name),
                  mtime |-> Head(listing).mtime,
                  content |-> Head(listing).content]>>
          ELSE <<>>)
         \o json_files_of(dir, Tail(listing))

\* The same comprehension without the f.endswith(".json") condition.
RECURSIVE all_files_of(_, _)
all_files_of(dir, listing) ==
    IF listing = <<>> THEN <<>>
    ELSE <<[path |-> path_join(dir, Head(listing).name),
            mtime |-> Head(listing).mtime,
            content |-> Head(listing).content]>>
         \o all_files_of(dir, Tail(listing))

\* max(json_files, key=os.path.getmtime): the first of the items whose key is
\* the greatest.
RECURSIVE max_getmtime(_)
max_getmtime(files) ==
    IF Len(files) = 1 THEN Head(files)
    ELSE LET rest == max_getmtime(Tail(files))
         IN IF Head(files).mtime >= rest.mtime THEN Head(files) ELSE rest

\* What a call of read_input_tags does: it returns (tags_content, filename) or
\* raises.
Returned(tags_content, filename) ==
    [kind |-> "return", error |-> "", tags_content |-> <<tags_content>>,
     filename |-> filename]

Raised(error) ==
    [kind |-> "raise", error |-> error, tags_content |-> <<>>, filename |-> <<>>]

\* Lines 106-118: the latest of the files gathered is opened and loaded.
load_latest(files) ==
    LET latest_json_path == max_getmtime(files)
        filename == basename(latest_json_path.path)
    IN IF latest_json_path.content = <<>> THEN Raised("JSONDecodeError")
       ELSE Returned(latest_json_path.content[1], filename)

\* Variant of read_input_tags that considers every file of the directory.
read_input_tags_any(dir) ==
    IF dir = <<>> THEN Raised("FileNotFoundError")
    ELSE LET files == all_files_of("output_tags", dir[1])
         IN IF files = <<>> THEN Raised("FileNotFoundError") ELSE load_latest(files)

\* read_input_tags, lines 91-118.  os.listdir raises FileNotFoundError for a
\* directory that does not exist; line 105 raises it for one without .json files.
read_input_tags(dir) ==
    IF dir = <<>> THEN Raised("FileNotFoundError")
    ELSE LET json_files == json_files_of("output_tags", dir[1])
         IN IF json_files = <<>> THEN Raised("FileNotFoundError")
            ELSE load_latest(json_files)

---------------------------------------------------------------------------
\* SpecFn: each pure function applied to every input of its bounded domain.

InitFn ==
    /\ applied = FALSE
    /\ prompt = <<>>
    /\ results_json = <<>>
    /\ filtered_results = <<>>
    /\ tags_read = <<>>
    /\ \/ /\ fn = "json_to_gdino_prompt"
          /\ tags \in TagSets
          /\ results = [labels |-> <<>>, boxes |-> <<>>, scores |-> <<>>]
          /\ candidates = <<>>
          /\ threshold = 0
          /\ input_tags_dir = <<>>
       \/ /\ fn = "gdino_results_to_json"
          /\ tags = <<>>
          /\ results \in RawResults
          /\ candidates = <<>>
          /\ threshold = 0
          /\ input_tags_dir = <<>>
       \/ /\ fn = "filter_confidence"
          /\ tags = <<>>
          /\ results = [labels |-> <<>>, boxes |-> <<>>, scores |-> <<>>]
          /\ candidates \in CandidateLists
          /\ threshold \in Scores
          /\ input_tags_dir = <<>>
       \/ /\ fn = "read_input_tags"
          /\ tags = <<>>
          /\ results = [labels |-> <<>>, boxes |-> <<>>, scores |-> <<>>]
          /\ candidates = <<>>
          /\ threshold = 0
          /\ input_tags_dir \in TagDirs
    /\ PipelineUnused /\ DescUnused /\ LocUnused

ApplyPrompt ==
    /\ fn = "json_to_gdino_prompt" /\ ~applied
    /\ prompt' = json_to_gdino_prompt(tags)
    /\ applied' = TRUE
    /\ UNCHANGED <<fn, tags, results, results_json, candidates, threshold,
                   filtered_results, input_tags_dir, tags_read>>
    /\ UNCHANGED <<pvars, dvars, lvars>>

ApplyNormalize ==
    /\ fn = "gdino_results_to_json" /\ ~applied
    /\ results_json' = gdino_results_to_json(results)
    /\ applied' = TRUE
    /\ UNCHANGED <<fn, tags, prompt, results, candidates, threshold, filtered_results,
                   input_tags_dir, tags_read>>
    /\ UNCHANGED <<pvars, dvars, lvars>>

ApplyFilter ==
    /\ fn = "filter_confidence" /\ ~applied
    /\ filtered_results' = filter_confidence(candidates, threshold)
    /\ applied' = TRUE
    /\ UNCHANGED <<fn, tags, prompt, results, results_json, candidates, threshold,
                   input_tags_dir, tags_read>>
    /\ UNCHANGED <<pvars, dvars, lvars>>

\* self.read_input_tags(input_tags_dir=input_tags_dir), line 64.
ApplyReadInputTags ==
    /\ fn = "read_input_tags" /\ ~applied
    /\ tags_read' = <<read_input_tags(input_tags_dir)>>
    /\ applied' = TRUE
    /\ UNCHANGED <<fn, tags, prompt, results, results_json, candidates, threshold,
                   filtered_results, input_tags_dir>>
    /\ UNCHANGED <<pvars, dvars, lvars>>

NextFn ==
    \/ ApplyPrompt
    \/ ApplyNormalize
    \/ ApplyFilter
    \/ ApplyReadInputTags

SpecFn == InitFn /\ [][NextFn]_vars

---------------------------------------------------------------------------
\* SpecLoc: one GroundingDinoLocator, its clock and its output directory, used
\* as the file's own main (lines 236-241) uses it, for one call or several.

\* Paths under output_location: location_gdino_<ts>.json and .jpg, lines 84-89.
LocPath(ext, ts) == [ext |-> ext, ts |-> ts]

\* What post_process_grounded_object_detection may hand back (lines 204-208).
DetectorResults ==
    {[labels |-> <<<<Cup, Table>>>>, boxes |-> <<<<BoxA, BoxB>>>>,
      scores |-> <<<<31, 30>>>>],
     [labels |-> <<<<Table>>>>, boxes |-> <<<<BoxB>>>>, scores |-> <<<<31>>>>],
     [labels |-> <<<<>>>>, boxes |-> <<<<>>>>, scores |-> <<<<>>>>]}

\* Lines 222 and 231: the file an artifact is written to is the name __init__
\* stored in self.output_file_json / self.output_file_jpg.
artifact_path(self, ext, now) == self.output_file[ext]

\* One artifact written over whatever the path held.
WriteFile(fs, path, content) ==
    {f \in fs : f.path # path} \cup {[path |-> path, content |-> content]}

Exists(fs, path) == \E f \in fs : f.path = path

InitLoc ==
    /\ locator = <<>>
    /\ loc_built = FALSE
    /\ loc_clock = 0
    /\ loc_fs = {}
    /\ loc_writes = <<>>
    /\ loc_runs = 0
    /\ loc_result = <<>>
    /\ PipelineUnused /\ DescUnused /\ FnUnused

\* __init__, lines 16-89.  It raises when the image is missing (line 52) or
\* when read_input_tags finds no .json file (line 105); otherwise it keeps the
\* tags read and, with saving on, the file names made from the time of
\* construction.
LocConstruct ==
    /\ ~loc_built
    /\ \E ok \in BOOLEAN, score_threshold \in Scores, save_file_json \in BOOLEAN,
          save_file_jpg \in BOOLEAN, input_tags \in PipelineTagSets :
          LET timestamp == strftime(loc_clock)
          IN locator' =
                 IF ok
                 THEN <<[built |-> loc_clock,
                         score_threshold |-> score_threshold,
                         save_file_json |-> save_file_json,
                         save_file_jpg |-> save_file_jpg,
                         input_tags |-> input_tags,
                         output_file |-> [json |-> LocPath("json", timestamp),
                                          jpg |-> LocPath("jpg", timestamp)]]>>
                 ELSE <<>>
    /\ loc_built' = TRUE
    /\ loc_runs' = 0
    /\ loc_result' = <<>>
    /\ UNCHANGED <<loc_clock, loc_fs, loc_writes>>
    /\ UNCHANGED <<pvars, dvars, fvars>>

\* locate_objects(locator.input_tags), lines 192-234, as one step: prompt,
\* detection, normalization, filter, then the two artifact writes.  The
\* detection takes some ticks, so the writes happen at a later clock reading.
LocateObjects ==
    /\ locator # <<>>
    /\ loc_runs < MaxRuns
    /\ \E raw \in DetectorResults, took \in 0..MaxDur :
          LET self == locator[1]
              text == json_to_gdino_prompt(self.input_tags)
              now == loc_clock + took
              found == filter_confidence(gdino_results_to_json(raw), self.score_threshold)
              json == artifact_path(self, "json", now)
              jpg == artifact_path(self, "jpg", now)
              entry(path, fs) ==
                  [built |-> self.built, run |-> loc_runs + 1,
                   time |-> now, path |-> path, existed |-> Exists(fs, path)]
              fs1 == IF self.save_file_json THEN WriteFile(loc_fs, json, found)
                     ELSE loc_fs
              fs2 == IF self.save_file_jpg THEN WriteFile(fs1, jpg, found) ELSE fs1
          IN /\ Len(text) >= 1
             /\ loc_fs' = fs2
             /\ loc_writes' =
                    loc_writes
                    \o (IF self.save_file_json THEN <<entry(json, loc_fs)>> ELSE <<>>)
                    \o (IF self.save_file_jpg THEN <<entry(jpg, fs1)>> ELSE <<>>)
             /\ loc_clock' = now
             /\ loc_result' = <<found>>
    /\ loc_runs' = loc_runs + 1
    /\ UNCHANGED <<locator, loc_built>>
    /\ UNCHANGED <<pvars, dvars, fvars>>

\* Time passes between calls.
LocTick ==
    /\ loc_clock < MaxClock
    /\ loc_clock' = loc_clock + 1
    /\ UNCHANGED <<locator, loc_built, loc_fs, loc_writes, loc_runs, loc_result>>
    /\ UNCHANGED <<pvars, dvars, fvars>>

NextLoc ==
    \/ LocConstruct
    \/ LocateObjects
    \/ LocTick

SpecLoc == InitLoc /\ [][NextLoc]_vars

---------------------------------------------------------------------------
\* Properties of the orchestrator, checked under Spec.

LastRun == runs[Len(runs)]
RunCompleted == runs # <<>> /\ LastRun.status = "returned"
HasEvent(kind, stage) == \E k \in DOMAIN events : events[k] = <<kind, stage>>

\* C1: a run that completes has called tagging, location and segmentation once
\* each, in that order, each call starting after the previous stage returned;
\* location received exactly the value tagging returned and segmentation
\* received exactly the value location returned.
C1_StagesInOrder ==
    RunCompleted =>
        /\ events = <<<<"call", "tagging">>, <<"return", "tagging">>,
                      <<"call", "location">>, <<"return", "location">>,
                      <<"call", "segmentation">>, <<"return", "segmentation">>>>
        /\ tagging_output # <<>>
        /\ location_input = tagging_output
        /\ location_output # <<>>
        /\ segmentation_input = location_output

\* A completed run whose tag set and detection list both have two elements in a
\* definite order.
C1_Witness ==
    /\ RunCompleted
    /\ tagging_output = <<<<<<"0", Table>>, <<"1", Cup>>>>>>
    /\ segmentation_input = <<<<CandB, CandA>>>>

\* The strategy classes a configuration selects, read off the configuration.
SelectedBy(args, class) ==
    CASE class = "RamPlusTagger" -> args.tagging_method = RAM_PLUS
      [] class = "LlavaDescriptor" ->
            args.tagging_method = LVLM_LLM /\ args.tagging_submethods[1] = LLAVA
      [] class = "DeepseekKeywordExtractor" ->
            args.tagging_method = LVLM_LLM /\ args.tagging_submethods[2] = DEEPSEEK
      [] class = "GroundingDinoLocator" -> args.location_method = GROUNDING_DINO
      [] class = "Sam2Segmenter" -> args.segmentation_method = SAM2

\* C2: only the strategy classes the configuration selects are ever constructed,
\* each at most once; with Direct tagging neither the descriptor nor the
\* extractor is, with Describe-then-Extract the Direct tagger is not; and once
\* the orchestrator is built every selected class has been constructed exactly
\* once and stays so through every run.
C2_OnlySelectedConstructed ==
    /\ \A c \in Collaborators :
          /\ constructed[c] <= 1
          /\ constructed[c] > 0 => SelectedBy(pipeline, c)
          /\ mainpc \in {"main", "done"} /\ SelectedBy(pipeline, c) => constructed[c] = 1
    /\ pipeline.tagging_method = RAM_PLUS =>
          constructed["LlavaDescriptor"] = 0 /\ constructed["DeepseekKeywordExtractor"] = 0
    /\ pipeline.tagging_method = LVLM_LLM => constructed["RamPlusTagger"] = 0

\* Direct tagging, two runs done with the one tagger.
C2_Witness ==
    /\ pipeline.tagging_method = RAM_PLUS
    /\ pipeline.tagging_submethods = <<LLAVA, DEEPSEEK>>
    /\ constructed["RamPlusTagger"] = 1
    /\ Len(runs) >= 2
    /\ mainpc = "done"

\* C3: when a stage raises, that is the last event of the run: no later stage is
\* called, the failed stage was called once, run returns nothing, main reports
\* no average and never starts another run.
C3_FailureAborts ==
    \A k \in DOMAIN events :
        events[k][1] = "raise" =>
            /\ k = Len(events)
            /\ Count(events, <<"call", events[k][2]>>) = 1
            /\ runpc = "raised"
            /\ ret = <<>>
            /\ LastRun.status = "raised"
            /\ mainpc \in {"main", "failed"}
            /\ avg_time = <<>>

\* The location stage raised in the second run of a batch and main has failed.
C3_Witness ==
    /\ HasEvent("raise", "location")
    /\ ~HasEvent("call", "segmentation")
    /\ Len(runs) = 2
    /\ mainpc = "failed"

\* C4: the descriptor invokes the model only while elapsed < timeout; every
\* response before the last was blank; it returns the first response that is
\* non-blank after strip(), or raises with elapsed >= timeout after blank
\* responses only.  The extractor is only ever given such a non-blank
\* description, and a descriptor that raises fails the tagging stage.
C4_BoundedRetry ==
    /\ llava_result # <<>> =>
          LET r == llava_result[1]
              n == Len(r.calls)
          IN /\ \A k \in 1..n : r.calls[k].elapsed < timeout
             /\ \A k \in 1..(n - 1) : strip(r.calls[k].response) = <<>>
             /\ r.kind \in {"return", "raise"}
             /\ r.kind = "return" =>
                   /\ n >= 1
                   /\ r.description = r.calls[n].response
                   /\ strip(r.description) # <<>>
                   /\ extractor_input \in {<<>>, <<r.description>>}
             /\ r.kind = "raise" =>
                   /\ r.elapsed >= timeout
                   /\ \A k \in 1..n : strip(r.calls[k].response) = <<>>
                   /\ extractor_input = <<>>
                   /\ events = <<<<"call", "tagging">>, <<"raise", "tagging">>>>
    /\ extractor_input # <<>> => strip(extractor_input[1]) # <<>>

\* A blank response was retried, the second response was accepted and handed to
\* the extractor with its surrounding whitespace.
C4_Witness ==
    /\ llava_result # <<>>
    /\ Len(llava_result[1].calls) = 2
    /\ extractor_input = <<<<" ", "a", " ">>>>

RECURSIVE SumElapsed(_)
SumElapsed(rs) == IF rs = <<>> THEN 0 ELSE Head(rs).elapsed + SumElapsed(Tail(rs))

\* C10 as stated: a finished batch has run the pipeline once per image of the
\* list, in list order, and reports the sum of the elapsed times over the
\* number of images.
C10_OncePerImage ==
    iters > 1 /\ mainpc = "done" =>
        /\ Len(runs) = Len(ImageList)
        /\ \A k \in DOMAIN runs :
              runs[k].image = [is_list |-> FALSE, names |-> <<ImageList[k]>>]
        /\ avg_time = <<[num |-> SumElapsed(runs), den |-> Len(ImageList)]>>

\* C10 amended: a batch runs the pipeline iters times, the k-th run on the k-th
\* image of the list, never two at once; when it finishes, iters runs have
\* returned and the average is the sum of their elapsed times over iters; with
\* iters above the list length it never finishes.
C10_OncePerIteration ==
    iters > 1 =>
        /\ Len(runs) <= iters
        /\ \A k \in DOMAIN runs :
              /\ runs[k].image = [is_list |-> FALSE, names |-> <<ImageList[k]>>]
              /\ k < Len(runs) => runs[k].status = "returned"
        /\ avg_time # <<>> => mainpc = "done"
        /\ mainpc = "done" =>
              /\ iters <= Len(ImageList)
              /\ Len(runs) = iters
              /\ LastRun.status = "returned"
              /\ avg_time = <<[num |-> SumElapsed(runs), den |-> iters]>>

\* A batch of two iterations over the longer list has finished with a non-zero
\* total.
C10_Witness ==
    /\ iters = 2 /\ iters < Len(ImageList)
    /\ mainpc = "done"
    /\ avg_time # <<>>
    /\ avg_time[1].num = 2

---------------------------------------------------------------------------
\* Properties of the descriptor's artifacts, checked under SpecDesc.

\* C8 as stated: every path a run creates or writes did not exist before, the
\* directory being the base name or the base name with the smallest free suffix.
C8_NoOverwrite ==
    \A k \in DOMAIN desc_writes :
        LET w == desc_writes[k]
        IN /\ ~w.existed
           /\ w.op = "makedirs" =>
                 \A n \in 0..(w.path.n - 1) : DescDir(w.path.ts, n) \in desc_fs

---------------------------------------------------------------------------
\* Properties of the locator's pure functions, checked under SpecFn.

\* The indices of a candidate list whose score is above the threshold.
Above(list, thr) == {k \in DOMAIN list : list[k].score > thr}

\* C5: the filter's output is the subsequence of the candidates whose score is
\* strictly greater than the threshold, in their original order; a candidate
\* whose score equals the threshold is not in it.
C5_StrictFilter ==
    fn = "filter_confidence" /\ applied =>
        LET kept == Above(candidates, threshold)
        IN /\ Len(filtered_results) = Cardinality(kept)
           /\ \A k \in kept :
                 filtered_results[Cardinality({j \in kept : j <= k})] = candidates[k]
           /\ \A k \in DOMAIN filtered_results :
                 filtered_results[k].score # threshold

\* Scores 0.29, 0.30, 0.31 against the threshold 0.30: only the last is kept.
C5_Witness ==
    /\ fn = "filter_confidence" /\ applied
    /\ threshold = 30
    /\ Len(candidates) = 3
    /\ candidates[1].score = 29 /\ candidates[2].score = 30 /\ candidates[3].score = 31
    /\ filtered_results = <<candidates[3]>>

RECURSIVE Flatten(_)
Flatten(pieces) == IF pieces = <<>> THEN <<>> ELSE Head(pieces) \o Flatten(Tail(pieces))

\* Each value followed by ". ", the last one by "."; "." alone for no value.
ExpectedPrompt(values) ==
    IF values = <<>> THEN <<".">>
    ELSE Flatten([k \in DOMAIN values |->
                     values[k] \o (IF k < Len(values) THEN <<".", " ">> ELSE <<".">>)])

Values(t) == [k \in DOMAIN t |-> t[k][2]]

\* C6: the prompt is the tag set's values in insertion order joined by ". " and
\* ended by "."; tag sets with the same values in the same order give the same
\* prompt whatever their keys; the empty tag set gives ".".
C6_Prompt ==
    fn = "json_to_gdino_prompt" /\ applied =>
        /\ prompt = ExpectedPrompt(Values(tags))
        /\ tags = <<>> => prompt = <<".">>
        /\ tags = <<<<"0", Cup>>, <<"1", Table>>>> =>
              prompt = <<"c", "u", "p", ".", " ", "t", "a", "b", "l", "e", ".">>
        /\ \A other \in TagSets :
              Values(other) = Values(tags) => json_to_gdino_prompt(other) = prompt

\* build_prompt({"k": "table", "0": "cup"}): keys out of order, two values.
C6_Witness ==
    /\ fn = "json_to_gdino_prompt" /\ applied
    /\ tags = <<<<"k", Table>>, <<"0", Cup>>>>
    /\ prompt = <<"t", "a", "b", "l", "e", ".", " ", "c", "u", "p", ".">>

Arr(raw, key) == IF raw[key] = <<>> THEN <<>> ELSE raw[key][1]

Min3(a, b, c) == CHOOSE m \in {a, b, c} : m <= a /\ m <= b /\ m <= c

\* C7: normalization yields min(len(labels), len(boxes), len(scores)) records,
\* none when an array is absent; the k-th record is made of the k-th label, the
\* k-th box and the k-th score, so the order is the detector's.
C7_Zip ==
    fn = "gdino_results_to_json" /\ applied =>
        LET labels == Arr(results, "labels")
            boxes == Arr(results, "boxes")
            scores == Arr(results, "scores")
        IN /\ Len(results_json) = Min3(Len(labels), Len(boxes), Len(scores))
           /\ \A k \in DOMAIN results_json :
                 /\ results_json[k].label = labels[k]
                 /\ results_json[k].score = scores[k]
                 /\ results_json[k].bbox =
                       [x_min |-> boxes[k][1], y_min |-> boxes[k][2],
                        x_max |-> boxes[k][3], y_max |-> boxes[k][4]]
           /\ (\E key \in {"labels", "boxes", "scores"} : results[key] = <<>>) =>
                 results_json = <<>>

\* Three labels, two boxes, three rising scores: two records, in the detector's
\* order, the lower score first.
C7_Witness ==
    /\ fn = "gdino_results_to_json" /\ applied
    /\ results = [labels |-> <<<<Cup, Table, Cup>>>>, boxes |-> <<<<BoxB, BoxA>>>>,
                  scores |-> <<<<29, 30, 31>>>>]
    /\ results_json = <<obj(Cup, BoxB, 29), obj(Table, BoxA, 30)>>

---------------------------------------------------------------------------
\* Properties of the locator's artifacts, checked under SpecLoc.

SameKind(a, b) == a.path.ext = b.path.ext

\* C9 as stated: an artifact is named by the second it is written in, so two
\* runs on one locator that complete in different seconds write different
\* files, and a write replaces a file only if that file was written in the same
\* second.
C9_NamedAtWrite ==
    /\ \A k \in DOMAIN loc_writes :
          loc_writes[k].path.ts = strftime(loc_writes[k].time)
    /\ \A j, k \in DOMAIN loc_writes :
          LET a == loc_writes[j]
              b == loc_writes[k]
          IN /\ SameKind(a, b) /\ a.run # b.run /\ strftime(a.time) # strftime(b.time)
                => a.path # b.path
             /\ j < k /\ a.path = b.path => strftime(a.time) = strftime(b.time)

\* What the code does instead: an artifact is named by the second its locator
\* was constructed in.  Every run on one locator writes the same JSON file and
\* the same image file, so each later run replaces the earlier run's artifact
\* whatever second it completes in.
LocNamedAtConstruction ==
    /\ \A k \in DOMAIN loc_writes :
          /\ locator # <<>>
          /\ loc_writes[k].built = locator[1].built
          /\ loc_writes[k].path = LocPath(loc_writes[k].path.ext, strftime(locator[1].built))
    /\ \A j, k \in DOMAIN loc_writes :
          LET a == loc_writes[j]
              b == loc_writes[k]
          IN /\ SameKind(a, b) => a.path = b.path
             /\ SameKind(a, b) /\ a.run < b.run => b.existed
             /\ b.existed => \E h \in 1..(k - 1) : loc_writes[h].path = b.path

---------------------------------------------------------------------------
\* Tag-source resolution, checked under SpecFn.

\* The positions of a listing whose name has ".json" as its last five characters.
JsonEntries(listing) ==
    {k \in DOMAIN listing :
        LET n == listing[k].name
        IN /\ Len(n) >= 5
           /\ n[Len(n) - 4] = "." /\ n[Len(n) - 3] = "j" /\ n[Len(n) - 2] = "s"
           /\ n[Len(n) - 1] = "o" /\ n[Len(n)] = "n"}

\* The listing read_input_tags was given; none for a missing directory.
Scanned == IF input_tags_dir = <<>> THEN <<>> ELSE input_tags_dir[1]

\* C11: among the directory's entries whose name ends in ".json", resolution
\* selects one whose modification time no other such entry exceeds, whatever
\* the other entries are: it returns that file's name and tag set (or fails in
\* json.load when that file holds no JSON).  With no ".json" entry it raises
\* FileNotFoundError and returns no tag set.
C11_LatestJson ==
    fn = "read_input_tags" /\ applied =>
        LET json == JsonEntries(Scanned)
            out == tags_read[1]
        IN IF json = {}
           THEN /\ out.kind = "raise" /\ out.error = "FileNotFoundError"
                /\ out.tags_content = <<>>
           ELSE \E k \in json :
                   /\ \A j \in json : Scanned[j].mtime <= Scanned[k].mtime
                   /\ IF Scanned[k].content = <<>>
                      THEN out.kind = "raise" /\ out.error = "JSONDecodeError"
                      ELSE /\ out.kind = "return"
                           /\ out.filename = Scanned[k].name
                           /\ out.tags_content = Scanned[k].content

\* Three tag files modified at t1 < t2 < t3, the latest listed neither first nor
\* last, and a file of another kind modified after all of them: the tag file
\* of t3 is the one returned.
C11_Witness ==
    /\ fn = "read_input_tags" /\ applied
    /\ Len(Scanned) = 4
    /\ Cardinality(JsonEntries(Scanned)) = 3
    /\ \E k \in JsonEntries(Scanned), o \in DOMAIN Scanned \ JsonEntries(Scanned) :
          /\ k \in {2, 3}
          /\ Scanned[k].mtime = 3
          /\ {Scanned[j].mtime : j \in JsonEntries(Scanned)} = {1, 2, 3}
          /\ Scanned[o].mtime = 4
          /\ tags_read[1].kind = "return"
          /\ tags_read[1].filename = Scanned[k].name
          /\ tags_read[1].tags_content = Scanned[k].content

====
